---------------------------- MODULE Spec2Model ----------------------------
(***************************************************************************)
(* Mount-namespace management of the rkt "fly" stage1 flavor:              *)
(*   - evaluateMounts: reconciles pod mounts, volumes and image mount      *)
(*     points into a list of mount operations (stage1 run);                *)
(*   - stage1: applies the system mounts and the plan, then chroot/exec;   *)
(*   - gc main: remounts private and unmounts every mount of a pod.        *)
(* Strings that are compared bytewise (paths, mount table lines) are       *)
(* tuples of one-character strings; ByteOf gives each character its byte.  *)
(***************************************************************************)
EXTENDS Integers, Sequences, FiniteSets, TLC

VARIABLES
    pod,          \* the loaded pod: Manifest.Apps[0].Mounts, Manifest.Volumes, Images[app].App.MountPoints
    plan,         \* result of the latest evaluateMounts call
    prevPlan,     \* result of the evaluateMounts call before the latest one (same pod)
    pc,           \* stage1: position in stage1()
    cloexec,      \* stage1: FD_CLOEXEC flag of the rkt lock fd ("unknown" before it is set)
    effectiveMounts, \* stage1: the list the executor loop ranges over
    idx,          \* stage1: index of the next element of effectiveMounts
    applied,      \* stage1: indexes of effectiveMounts whose mount syscall succeeded, in order
    lastStep,     \* stage1: what the latest executor iteration saw and did
    exitCode,     \* stage1: process exit code, -1 while running or after a successful exec
    exitAt,       \* stage1: the step at which the process exited ("" while running)
    ppidWritten,  \* stage1: whether the ppid file was written
    lines,        \* gc: the lines of /proc/self/mountinfo
    gcpc,         \* gc: position in main()
    mountList,    \* gc: the mountList slice
    remounted,    \* gc: mount points remounted private so far, in order
    unmounted,    \* gc: mount points unmounted so far, in order
    gcExit,       \* gc: exit code, -1 while running
    mountinfo,    \* stage0: the mounts of the mount table getMountsForPrefix reads
    mntPrefix,    \* stage0: the prefix getMountsForPrefix is called with
    mnts          \* stage0: what getMountsForPrefix returned

podVars == <<pod, plan, prevPlan>>
stage1Vars == <<pc, cloexec, effectiveMounts, idx, applied, lastStep, exitCode, exitAt, ppidWritten>>
gcVars == <<lines, gcpc, mountList, remounted, unmounted, gcExit>>
prefixVars == <<mountinfo, mntPrefix, mnts>>
vars == <<pod, plan, prevPlan, pc, cloexec, effectiveMounts, idx, applied, lastStep,
          exitCode, exitAt, ppidWritten, lines, gcpc, mountList, remounted, unmounted, gcExit,
          mountinfo, mntPrefix, mnts>>

-----------------------------------------------------------------------------
(* Bounds *)

\* total number of declarations (pod mounts + volumes + image mount points) of a pod
\* whose plan is built
PlanMaxDecls == 4

\* total number of declarations of a pod that stage1 sets up
Stage1MaxDecls == 3

\* number of lines of the mount table the reaper reads
MaxLines == 3

\* number of mounts of a mount table getMountsForPrefix reads
MaxMounts == 3

-----------------------------------------------------------------------------
(* Strings *)

ByteOf == ("-" :> 45) @@ ("/" :> 47) @@ ("a" :> 97) @@ ("b" :> 98) @@ ("c" :> 99)
          @@ ("d" :> 100) @@ ("h" :> 104) @@ ("r" :> 114) @@ ("u" :> 117) @@ ("x" :> 120)
          @@ (" " :> 32)

EmptyStr == << >>

\* strings.HasPrefix
HasPrefix(s, p) == Len(p) <= Len(s) /\ SubSeq(s, 1, Len(p)) = p

\* c lies strictly below directory p in the path hierarchy
IsPathAncestor(p, c) ==
    /\ Len(c) > Len(p) + 1
    /\ HasPrefix(c, p)
    /\ c[Len(p) + 1] = "/"

\* filepath.Join of two elements: empty elements are ignored, one separator between
Join(a, b) ==
    IF a = EmptyStr THEN b
    ELSE IF b = EmptyStr THEN a
    ELSE IF b[1] = "/" THEN a \o b
    ELSE a \o <<"/">> \o b

-----------------------------------------------------------------------------
(* The pod: the three projections evaluateMounts reads *)

Names == {"a", "b"}
ContainerPaths == { <<"/", "d">>, <<"/", "d", "/", "c">> }
HostSource == <<"/", "h">>

\* schema.Mount
PodMountSpecs == [Volume : Names, Path : ContainerPaths]
\* types.Volume; ReadOnly is a *bool: "nil", or a pointer to a bool of the manifest
VolumeSpecs == [Name : Names, Source : {HostSource}, ReadOnly : {"nil", "true", "false"}]
\* types.MountPoint
MountPointSpecs == [Name : Names, Path : ContainerPaths, ReadOnly : BOOLEAN]

\* zero values
NoMount == [Volume |-> "", Path |-> EmptyStr]
NoVolume == [Name |-> "", Source |-> EmptyStr, ReadOnly |-> "nil"]
NoMountPoint == [Name |-> "", Path |-> EmptyStr, ReadOnly |-> FALSE]

rfs == <<"r">>

MS_BIND == "MS_BIND"
MS_REC == "MS_REC"
MS_SHARED == "MS_SHARED"
MS_REMOUNT == "MS_REMOUNT"
MS_RDONLY == "MS_RDONLY"
MS_PRIVATE == "MS_PRIVATE"

flyMount(host, prefix, rel, fs, flags) ==
    [HostPath |-> host, TargetPrefixPath |-> prefix, RelTargetPath |-> rel,
     Fs |-> fs, Flags |-> flags]

volumeMountTuple(v, m) == [V |-> v, M |-> m]

-----------------------------------------------------------------------------
(* evaluateMounts *)

EmptyMap == [k \in {} |-> volumeMountTuple(NoVolume, NoMount)]

MapPut(nvm, k, t) == [n \in DOMAIN nvm \cup {k} |-> IF n = k THEN t ELSE nvm[n]]

\* the first loop without its duplicate check: the last mount of a volume wins
RECURSIVE SeedMountsLastWins(_, _, _)
SeedMountsLastWins(mounts, i, nvm) ==
    IF i > Len(mounts) THEN [err |-> "none", nvm |-> nvm]
    ELSE SeedMountsLastWins(mounts, i + 1,
                            MapPut(nvm, mounts[i].Volume, volumeMountTuple(NoVolume, mounts[i])))

\* first loop: the pod-level mounts seed the map; a second mount of a volume is fatal
RECURSIVE SeedMounts(_, _, _)
SeedMounts(mounts, i, nvm) ==
    IF i > Len(mounts) THEN [err |-> "none", nvm |-> nvm]
    ELSE IF mounts[i].Volume \in DOMAIN nvm THEN [err |-> "duplicate", nvm |-> nvm]
    ELSE SeedMounts(mounts, i + 1,
                    MapPut(nvm, mounts[i].Volume, volumeMountTuple(NoVolume, mounts[i])))

\* the second loop without its conflict case: the pod-level mount's path is kept
RECURSIVE MergeMountPointsIgnoringConflict(_, _, _)
MergeMountPointsIgnoringConflict(mps, i, nvm) ==
    IF i > Len(mps) THEN [err |-> "none", nvm |-> nvm]
    ELSE IF mps[i].Name \in DOMAIN nvm
         THEN MergeMountPointsIgnoringConflict(mps, i + 1, nvm)
    ELSE MergeMountPointsIgnoringConflict(mps, i + 1,
             MapPut(nvm, mps[i].Name,
                    volumeMountTuple(NoVolume, [Volume |-> mps[i].Name, Path |-> mps[i].Path])))

\* second loop: the image's mount points are merged in; a different path is a conflict
RECURSIVE MergeMountPoints(_, _, _)
MergeMountPoints(mps, i, nvm) ==
    IF i > Len(mps) THEN [err |-> "none", nvm |-> nvm]
    ELSE IF mps[i].Name \in DOMAIN nvm /\ nvm[mps[i].Name].M.Path # mps[i].Path
         THEN [err |-> "conflict", nvm |-> nvm]
    ELSE IF mps[i].Name \in DOMAIN nvm
         THEN MergeMountPoints(mps, i + 1, nvm)
    ELSE MergeMountPoints(mps, i + 1,
             MapPut(nvm, mps[i].Name,
                    volumeMountTuple(NoVolume, [Volume |-> mps[i].Name, Path |-> mps[i].Path])))

\* the third loop without its missing-mount case: a volume nobody mounts gets a record
RECURSIVE InsertVolumesCreatingMounts(_, _, _)
InsertVolumesCreatingMounts(vols, i, nvm) ==
    IF i > Len(vols) THEN [err |-> "none", nvm |-> nvm]
    ELSE LET m == IF vols[i].Name \in DOMAIN nvm THEN nvm[vols[i].Name].M
                  ELSE [Volume |-> vols[i].Name, Path |-> vols[i].Source]
         IN InsertVolumesCreatingMounts(vols, i + 1,
                MapPut(nvm, vols[i].Name, volumeMountTuple(vols[i], m)))

\* third loop: every volume must have a mount; the volume is attached to its record
RECURSIVE InsertVolumes(_, _, _)
InsertVolumes(vols, i, nvm) ==
    IF i > Len(vols) THEN [err |-> "none", nvm |-> nvm]
    ELSE IF vols[i].Name \notin DOMAIN nvm THEN [err |-> "missing_mount", nvm |-> nvm]
    ELSE IF nvm[vols[i].Name].M.Volume # vols[i].Name THEN [err |-> "mismatch", nvm |-> nvm]
    ELSE InsertVolumes(vols, i + 1,
             MapPut(nvm, vols[i].Name, volumeMountTuple(vols[i], nvm[vols[i].Name].M)))

\* the fourth loop without its nil test: the mount point's ReadOnly replaces whatever
\* the volume declares
RECURSIVE FillReadOnlyAlways(_, _, _, _)
FillReadOnlyAlways(mps, i, nvm, mpVar) ==
    IF i > Len(mps) THEN [err |-> "none", nvm |-> nvm, mpVar |-> mpVar]
    ELSE IF mps[i].Name \notin DOMAIN nvm \/ nvm[mps[i].Name].V.Name = ""
         THEN [err |-> "missing_volume", nvm |-> nvm, mpVar |-> mps[i]]
    ELSE FillReadOnlyAlways(mps, i + 1,
             MapPut(nvm, mps[i].Name,
                    volumeMountTuple([nvm[mps[i].Name].V EXCEPT !.ReadOnly = "mp"],
                                     nvm[mps[i].Name].M)),
             mps[i])

\* fourth loop: every mount point must have a volume; an unset ReadOnly is pointed at
\* the ReadOnly field of the loop variable mp ("mp").  The loop has one variable mp
\* for all its iterations, so mpVar, its value when the loop is left, is what every
\* such pointer reads afterwards.
RECURSIVE FillReadOnly(_, _, _, _)
FillReadOnly(mps, i, nvm, mpVar) ==
    IF i > Len(mps) THEN [err |-> "none", nvm |-> nvm, mpVar |-> mpVar]
    ELSE IF mps[i].Name \notin DOMAIN nvm \/ nvm[mps[i].Name].V.Name = ""
         THEN [err |-> "missing_volume", nvm |-> nvm, mpVar |-> mps[i]]
    ELSE IF nvm[mps[i].Name].V.ReadOnly = "nil"
         THEN FillReadOnly(mps, i + 1,
                  MapPut(nvm, mps[i].Name,
                         volumeMountTuple([nvm[mps[i].Name].V EXCEPT !.ReadOnly = "mp"],
                                          nvm[mps[i].Name].M)),
                  mps[i])
    ELSE FillReadOnly(mps, i + 1, nvm, mps[i])

\* *tuple.V.ReadOnly for a non-nil pointer
Deref(ptr, mpVar) == IF ptr = "mp" THEN mpVar.ReadOnly ELSE ptr = "true"

\* the loops of evaluateMounts up to the emission: [err, nvm, mpVar]
Reconcile(p) ==
    LET r1 == SeedMounts(p.Mounts, 1, EmptyMap) IN
    IF r1.err # "none" THEN [err |-> r1.err, nvm |-> r1.nvm, mpVar |-> NoMountPoint] ELSE
    LET r2 == MergeMountPoints(p.MountPoints, 1, r1.nvm) IN
    IF r2.err # "none" THEN [err |-> r2.err, nvm |-> r2.nvm, mpVar |-> NoMountPoint] ELSE
    LET r3 == InsertVolumes(p.Volumes, 1, r2.nvm) IN
    IF r3.err # "none" THEN [err |-> r3.err, nvm |-> r3.nvm, mpVar |-> NoMountPoint] ELSE
    FillReadOnly(p.MountPoints, 1, r3.nvm, NoMountPoint)

\* the operations of one map entry with the bind ahead of the mark-shared operation
TupleMountsBindFirst(tuple, mpVar) ==
    <<flyMount(tuple.V.Source, rfs, tuple.M.Path, "none", {MS_BIND, MS_REC}),
      flyMount(EmptyStr, EmptyStr, tuple.V.Source, "none", {MS_REC, MS_SHARED})>>
    \o (IF tuple.V.ReadOnly # "nil" /\ Deref(tuple.V.ReadOnly, mpVar)
        THEN <<flyMount(EmptyStr, rfs, tuple.M.Path, "none",
                        {MS_BIND, MS_REC, MS_REMOUNT, MS_RDONLY})>>
        ELSE << >>)

\* the operations of one map entry
TupleMounts(tuple, mpVar) ==
    <<flyMount(EmptyStr, EmptyStr, tuple.V.Source, "none", {MS_REC, MS_SHARED}),
      flyMount(tuple.V.Source, rfs, tuple.M.Path, "none", {MS_BIND, MS_REC})>>
    \o (IF tuple.V.ReadOnly # "nil" /\ Deref(tuple.V.ReadOnly, mpVar)
        THEN <<flyMount(EmptyStr, rfs, tuple.M.Path, "none",
                        {MS_BIND, MS_REC, MS_REMOUNT, MS_RDONLY})>>
        ELSE << >>)

\* a read-only remount that, once emitted, is emitted for every later entry too
RECURSIVE EmitMountsStickyReadOnly(_, _, _)
EmitMountsStickyReadOnly(nvm, order, mpVar) ==
    IF order = << >> THEN << >>
    ELSE LET n == Len(order)
             before == EmitMountsStickyReadOnly(nvm, SubSeq(order, 1, n - 1), mpVar)
             sticky == \E k \in 1..Len(before) : MS_RDONLY \in before[k].Flags
             t == nvm[order[n]]
         IN before \o
            <<flyMount(EmptyStr, EmptyStr, t.V.Source, "none", {MS_REC, MS_SHARED}),
              flyMount(t.V.Source, rfs, t.M.Path, "none", {MS_BIND, MS_REC})>>
            \o (IF sticky \/ (t.V.ReadOnly # "nil" /\ Deref(t.V.ReadOnly, mpVar))
                THEN <<flyMount(EmptyStr, rfs, t.M.Path, "none",
                                {MS_BIND, MS_REC, MS_REMOUNT, MS_RDONLY})>>
                ELSE << >>)

\* last loop: ranges over the map, in the order `order` the runtime picks
RECURSIVE EmitMounts(_, _, _)
EmitMounts(nvm, order, mpVar) ==
    IF order = << >> THEN << >>
    ELSE TupleMounts(nvm[Head(order)], mpVar) \o EmitMounts(nvm, Tail(order), mpVar)

\* the orders in which a range over a map with key set S can visit it
MapOrders(S) ==
    {o \in [1..Cardinality(S) -> S] : \A i, j \in 1..Cardinality(S) : i # j => o[i] # o[j]}

NoPlan == [err |-> "unset", mounts |-> << >>, order |-> << >>]

\* the results evaluateMounts can return for pod p: err "duplicate" and
\* "missing_volume" are log.Fatalf exits, the other errors are returned
evaluateMounts(p) ==
    LET r == Reconcile(p) IN
    IF r.err # "none" THEN {[err |-> r.err, mounts |-> << >>, order |-> << >>]}
    ELSE {[err |-> "none", mounts |-> EmitMounts(r.nvm, o, r.mpVar), order |-> o] :
            o \in MapOrders(DOMAIN r.nvm)}


-----------------------------------------------------------------------------
(* Initial values *)

\* the pods with at most n declarations in all
PodInit(n) ==
    \E i, j, k \in 0..n :
        /\ i + j + k <= n
        /\ \E m \in [1..i -> PodMountSpecs], v \in [1..j -> VolumeSpecs],
              mp \in [1..k -> MountPointSpecs] :
                pod = [Mounts |-> m, Volumes |-> v, MountPoints |-> mp]

NoStep == [idx |-> 0, host |-> "nil", target |-> "nil", created |-> "none", outcome |-> "none"]

Stage1Idle ==
    /\ pc = "start"
    /\ cloexec = "unknown"
    /\ effectiveMounts = << >>
    /\ idx = 0
    /\ applied = << >>
    /\ lastStep = NoStep
    /\ exitCode = -1
    /\ exitAt = ""
    /\ ppidWritten = FALSE

GCIdle ==
    /\ gcpc = "start"
    /\ mountList = << >>
    /\ remounted = << >>
    /\ unmounted = << >>
    /\ gcExit = -1

NoMounts == [err |-> "unset", mounts |-> << >>]

PrefixIdle ==
    /\ mountinfo = << >>
    /\ mntPrefix = EmptyStr
    /\ mnts = NoMounts

-----------------------------------------------------------------------------
(* evaluateMounts applied to a pod, any number of times *)

PlanInit ==
    /\ PodInit(PlanMaxDecls)
    /\ plan = NoPlan
    /\ prevPlan = NoPlan
    /\ Stage1Idle
    /\ lines = << >>
    /\ GCIdle
    /\ PrefixIdle

EvaluateMountsCall ==
    /\ \E r \in evaluateMounts(pod) :
          /\ plan' = r
          /\ prevPlan' = plan
    /\ UNCHANGED <<pod, stage1Vars, gcVars, prefixVars>>

PlanNext == EvaluateMountsCall

SpecPlan == PlanInit /\ [][PlanNext]_vars

-----------------------------------------------------------------------------
(* What a plan and a pod say, for the properties below *)

Range(s) == {s[i] : i \in 1..Len(s)}

IsMarkShared(m) == m.Flags = {MS_REC, MS_SHARED}
IsBind(m) == m.Flags = {MS_BIND, MS_REC}
IsReadOnlyRemount(m) == m.Flags = {MS_BIND, MS_REC, MS_REMOUNT, MS_RDONLY}

BindIndexes(pl) == {i \in 1..Len(pl.mounts) : IsBind(pl.mounts[i])}

\* the bind operation at index i is followed by a read-only remount of its path
RemountFollows(pl, i) ==
    /\ i + 1 <= Len(pl.mounts)
    /\ IsReadOnlyRemount(pl.mounts[i + 1])
    /\ pl.mounts[i + 1].RelTargetPath = pl.mounts[i].RelTargetPath

\* index of the k-th bind operation
RECURSIVE NthBind(_, _, _)
NthBind(pl, k, from) ==
    IF from > Len(pl.mounts) THEN 0
    ELSE IF IsBind(pl.mounts[from])
         THEN (IF k = 1 THEN from ELSE NthBind(pl, k - 1, from + 1))
    ELSE NthBind(pl, k, from + 1)

\* the reconciled mounts a plan holds: the k-th bind group belongs to the k-th
\* visited volume name
ReconciledMounts(pl) ==
    {[volumeName |-> pl.order[k],
      hostSource |-> pl.mounts[NthBind(pl, k, 1)].HostPath,
      containerPath |-> pl.mounts[NthBind(pl, k, 1)].RelTargetPath,
      readOnly |-> RemountFollows(pl, NthBind(pl, k, 1))] : k \in 1..Len(pl.order)}

ReconciledFor(pl, name) == CHOOSE r \in ReconciledMounts(pl) : r.volumeName = name

Failed(pl) == pl.err \notin {"unset", "none"}
Succeeded(pl) == pl.err = "none"

VolumeNames == {v.Name : v \in Range(pod.Volumes)}
MountNames == {m.Volume : m \in Range(pod.Mounts)}
MountPointNames == {mp.Name : mp \in Range(pod.MountPoints)}

DuplicatePodMount ==
    \E i, j \in 1..Len(pod.Mounts) : i # j /\ pod.Mounts[i].Volume = pod.Mounts[j].Volume

\* an image mount point and a pod-level mount of the same volume name with different paths
MountPointConflictsWithMount ==
    \E m \in Range(pod.Mounts), mp \in Range(pod.MountPoints) :
        m.Volume = mp.Name /\ m.Path # mp.Path

\* two image mount points of the same name with different paths
MountPointsConflict ==
    \E mp1, mp2 \in Range(pod.MountPoints) : mp1.Name = mp2.Name /\ mp1.Path # mp2.Path

UnreferencedVolume == \E n \in VolumeNames : n \notin MountNames \cup MountPointNames

MountWithoutVolume == \E n \in MountNames \cup MountPointNames : n \notin VolumeNames

\* the volume the record of `name` carries: the last one of that name in the list
LastVolume(name) ==
    LET is == {i \in 1..Len(pod.Volumes) : pod.Volumes[i].Name = name}
    IN pod.Volumes[CHOOSE i \in is : \A j \in is : j <= i]

DistinctMountPointNames ==
    \A i, j \in 1..Len(pod.MountPoints) :
        i # j => pod.MountPoints[i].Name # pod.MountPoints[j].Name

-----------------------------------------------------------------------------
(* Properties of evaluateMounts (checked under SpecPlan) *)

\* C2: whenever a pod-level mount or an image mount point names a volume that is not
\* in the volume list, plan building fails and emits no mount operations; the error is
\* the missing-volume error (a failure of an earlier check of evaluateMounts, which
\* never reaches the missing-volume check, is accepted here as failing).
C2_MissingVolumeFails ==
    (plan.err # "unset" /\ MountWithoutVolume)
        => /\ plan.mounts = << >>
           /\ plan.err \in {"missing_volume", "duplicate", "conflict", "missing_mount"}

\* C3: for every image mount point (of a list with distinct names) whose volume leaves
\* read-only unset, the reconciled mount's read-only value is that mount point's own
\* declared value, whatever the other mount points declare.
C3_ReadOnlyDefaultIsOwnMountPoint ==
    (Succeeded(plan) /\ DistinctMountPointNames)
        => \A mp \in Range(pod.MountPoints) :
               LastVolume(mp.Name).ReadOnly = "nil"
                   => ReconciledFor(plan, mp.Name).readOnly = mp.ReadOnly

\* C4 as stated: a mount point and a pod-level mount of the same name with different
\* paths make plan building fail with the conflict error and no operations.
C4_ConflictAlwaysConflictError ==
    (plan.err # "unset" /\ MountPointConflictsWithMount)
        => plan.err = "conflict" /\ plan.mounts = << >>

\* C4 amended: such a pair makes plan building fail with no operations; the error is
\* the conflict error, unless the pod-level mounts name a volume twice, in which case
\* it is the duplicate-mount error of the first loop.
C4_ConflictFails ==
    (plan.err # "unset" /\ MountPointConflictsWithMount)
        => /\ plan.mounts = << >>
           /\ plan.err = (IF DuplicatePodMount THEN "duplicate" ELSE "conflict")

C4_Witness ==
    /\ plan.err = "conflict"
    /\ MountPointConflictsWithMount
    /\ ~DuplicatePodMount

\* C5 as stated: a volume referenced by no pod-level mount and no image mount point
\* makes plan building fail with the missing-mount error and no operations.
C5_UnreferencedAlwaysMissingMount ==
    (plan.err # "unset" /\ UnreferencedVolume)
        => plan.err = "missing_mount" /\ plan.mounts = << >>

\* C5 amended: such a volume makes plan building fail with no operations; the error is
\* the missing-mount error, unless an earlier loop already failed: the duplicate-mount
\* error when the pod-level mounts name a volume twice, else the conflict error when
\* two declarations of one name (mount and mount point, or two mount points) give
\* different paths.
C5_UnreferencedFails ==
    (plan.err # "unset" /\ UnreferencedVolume)
        => /\ plan.mounts = << >>
           /\ plan.err = (IF DuplicatePodMount THEN "duplicate"
                          ELSE IF MountPointConflictsWithMount \/ MountPointsConflict
                               THEN "conflict"
                          ELSE "missing_mount")

C5_Witness ==
    /\ plan.err = "missing_mount"
    /\ UnreferencedVolume
    /\ Len(pod.Volumes) >= 2
    /\ pod.Volumes[1].Name \in MountNames \cup MountPointNames

\* C8: every reconciled mount of a successful plan has a non-empty host source and a
\* non-empty container path, and there is exactly one mark-shared/bind group per
\* volume name declared in the pod.
C8_PlanOutputInvariant ==
    Succeeded(plan)
        => /\ \A r \in ReconciledMounts(plan) :
                  r.hostSource # EmptyStr /\ r.containerPath # EmptyStr
           /\ \A i \in 1..Len(plan.mounts) :
                  IsMarkShared(plan.mounts[i]) => plan.mounts[i].RelTargetPath # EmptyStr
           /\ Cardinality(BindIndexes(plan))
                  = Cardinality(VolumeNames \cup MountNames \cup MountPointNames)
           /\ Cardinality({r.volumeName : r \in ReconciledMounts(plan)})
                  = Cardinality(BindIndexes(plan))

\* C9: in a successful plan (of a pod whose mounts all have their volume), the bind of
\* a container path comes before the bind of every container path nested under it.
C9_AncestorBoundFirst ==
    (Succeeded(plan) /\ ~MountWithoutVolume)
        => \A i, j \in BindIndexes(plan) :
               IsPathAncestor(plan.mounts[i].RelTargetPath, plan.mounts[j].RelTargetPath)
                   => i < j

\* C10: two runs of evaluateMounts on the same pod fail with the same error or both
\* succeed with the same set of reconciled mounts (name, host source, container path,
\* read-only value); at most the order of the per-volume groups differs.
C10_PlanDeterminism ==
    prevPlan.err # "unset"
        => /\ prevPlan.err = plan.err
           /\ ReconciledMounts(prevPlan) = ReconciledMounts(plan)

C10_Witness ==
    /\ Succeeded(prevPlan)
    /\ Succeeded(plan)
    /\ prevPlan.order # plan.order
    /\ \E r \in ReconciledMounts(plan) : r.readOnly
    /\ \E r \in ReconciledMounts(plan) : ~r.readOnly


\* index of the first pod-level mount that names a volume already mounted
FirstRepeat ==
    CHOOSE j \in 1..Len(pod.Mounts) :
        /\ \E i \in 1..(j - 1) : pod.Mounts[i].Volume = pod.Mounts[j].Volume
        /\ \A l \in 1..(j - 1) : \A i \in 1..(l - 1) : pod.Mounts[i].Volume # pod.Mounts[l].Volume

\* C14: a volume name that appears twice in the pod-level mounts fails evaluateMounts
\* with the duplicate-mount error at the second occurrence: whatever the image mount
\* points and the volumes are, no other error is reported, no operation is produced,
\* and the map holds only the pod-level mounts ahead of that occurrence.
C14_DuplicateMountFailsFirst ==
    (DuplicatePodMount /\ plan.err # "unset")
        => /\ plan.err = "duplicate"
           /\ plan.mounts = << >>
           /\ LET r == Reconcile(pod) IN
                /\ DOMAIN r.nvm = {pod.Mounts[i].Volume : i \in 1..(FirstRepeat - 1)}
                /\ \A n \in DOMAIN r.nvm :
                      /\ r.nvm[n].V = NoVolume
                      /\ \E i \in 1..(FirstRepeat - 1) : r.nvm[n].M = pod.Mounts[i]

C14_Witness ==
    /\ plan.err = "duplicate"
    /\ DuplicatePodMount
    /\ MountPointConflictsWithMount
    /\ UnreferencedVolume

\* the read-only value evaluateMounts resolved for the volume called name
ResolvedReadOnly(name) ==
    LET r == Reconcile(pod) IN
    r.nvm[name].V.ReadOnly # "nil" /\ Deref(r.nvm[name].V.ReadOnly, r.mpVar)

GroupSize(name) == IF ResolvedReadOnly(name) THEN 3 ELSE 2

\* index of the first operation of the k-th group of the plan
RECURSIVE GroupStart(_)
GroupStart(k) == IF k = 1 THEN 1 ELSE GroupStart(k - 1) + GroupSize(plan.order[k - 1])

\* C15: the plan is the concatenation of one group per reconciled mount, each group
\* being the mark-shared operation of the host source, the recursive bind of the host
\* source onto the container path under the root and, exactly when the resolved
\* read-only value is true, the read-only remount of that container path.
C15_GroupOrder ==
    Succeeded(plan) =>
        LET r == Reconcile(pod)
            n == Len(plan.order)
        IN /\ Range(plan.order) = DOMAIN r.nvm
           /\ n = Cardinality(DOMAIN r.nvm)
           /\ Len(plan.mounts) = GroupStart(n + 1) - 1
           /\ \A k \in 1..n :
                LET t == r.nvm[plan.order[k]]
                    g == GroupStart(k)
                IN /\ plan.mounts[g] =
                        flyMount(EmptyStr, EmptyStr, t.V.Source, "none", {MS_REC, MS_SHARED})
                   /\ plan.mounts[g + 1] =
                        flyMount(t.V.Source, rfs, t.M.Path, "none", {MS_BIND, MS_REC})
                   /\ ResolvedReadOnly(plan.order[k])
                        => plan.mounts[g + 2] =
                             flyMount(EmptyStr, rfs, t.M.Path, "none",
                                      {MS_BIND, MS_REC, MS_REMOUNT, MS_RDONLY})

C15_Witness ==
    /\ Succeeded(plan)
    /\ Len(plan.order) = 2
    /\ ResolvedReadOnly(plan.order[1])
    /\ ~ResolvedReadOnly(plan.order[2])
    /\ Len(plan.mounts) = 5
    /\ IsReadOnlyRemount(plan.mounts[3])
    /\ IsMarkShared(plan.mounts[4])

\* C22: in a plan, the read-only value of the mount of a volume that declares
\* read-only (true or false) is the value the volume declares, whatever the image
\* mount points declare; and the mount of a volume that leaves read-only unset and
\* is named by no image mount point is not read-only: its bind is followed by no
\* read-only remount.  The volume of a name is the one the record carries.
C22_ExplicitReadOnlyWins ==
    Succeeded(plan) =>
        \A name \in VolumeNames :
            LET v == LastVolume(name)
                r == ReconciledFor(plan, name)
            IN /\ v.ReadOnly # "nil" => r.readOnly = (v.ReadOnly = "true")
               /\ (v.ReadOnly = "nil" /\ name \notin MountPointNames) => ~r.readOnly

C22_Witness ==
    /\ Succeeded(plan)
    /\ \E mp \in Range(pod.MountPoints) :
          /\ mp.ReadOnly
          /\ LastVolume(mp.Name).ReadOnly = "false"
          /\ ~ReconciledFor(plan, mp.Name).readOnly
    /\ \E m \in Range(pod.Mounts) :
          /\ m.Volume \notin MountPointNames
          /\ m.Volume \in VolumeNames
          /\ LastVolume(m.Volume).ReadOnly = "nil"
          /\ ~ReconciledFor(plan, m.Volume).readOnly

-----------------------------------------------------------------------------
(* stage1 *)

DevPath == <<"/", "d", "e", "v">>
ProcPath == <<"/", "p", "r", "o", "c">>
SysPath == <<"/", "s", "y", "s">>
TmpPath == <<"/", "t", "m", "p">>
TmpfsName == <<"t", "m", "p", "f", "s">>

\* the literal list that evaluateMounts' result is appended to
SystemMounts ==
    <<flyMount(EmptyStr, EmptyStr, DevPath, "none", {MS_REC, MS_SHARED}),
      flyMount(DevPath, rfs, DevPath, "none", {MS_BIND, MS_REC}),
      flyMount(EmptyStr, EmptyStr, ProcPath, "none", {MS_REC, MS_SHARED}),
      flyMount(ProcPath, rfs, ProcPath, "none", {MS_BIND, MS_REC}),
      flyMount(EmptyStr, EmptyStr, SysPath, "none", {MS_REC, MS_SHARED}),
      flyMount(SysPath, rfs, SysPath, "none", {MS_BIND, MS_REC}),
      flyMount(TmpfsName, rfs, TmpPath, "tmpfs", {})>>

\* the values stage1 returns to os.Exit for its four reported failures
ExitMalformedUUID == 1
ExitLoadPod == 1
ExitWritePpid == 4
ExitExec == 7

Exit(code, at) ==
    /\ pc' = "exited"
    /\ exitCode' = code
    /\ exitAt' = at

\* types.NewUUID(flag.Arg(0))
S1ParseUUID ==
    /\ pc = "start"
    /\ \/ pc' = "load" /\ UNCHANGED <<exitCode, exitAt>>
       \/ Exit(ExitMalformedUUID, "uuid")
    /\ UNCHANGED <<podVars, cloexec, effectiveMounts, idx, applied, lastStep, ppidWritten, gcVars, prefixVars>>

\* LoadPod and the one-application check
S1LoadPod ==
    /\ pc = "load"
    /\ \/ pc' = "lock" /\ UNCHANGED <<exitCode, exitAt>>
       \/ Exit(ExitLoadPod, "loadPod")
       \/ Exit(1, "apps")
    /\ UNCHANGED <<podVars, cloexec, effectiveMounts, idx, applied, lastStep, ppidWritten, gcVars, prefixVars>>

\* GetRktLockFD and CloseOnExec(lfd, true)
S1LockFD ==
    /\ pc = "lock"
    /\ \/ pc' = "evaluate" /\ cloexec' = "set" /\ UNCHANGED <<exitCode, exitAt>>
       \/ Exit(1, "getLockFD") /\ UNCHANGED cloexec
       \/ Exit(1, "setCloExec") /\ UNCHANGED cloexec
    /\ UNCHANGED <<podVars, effectiveMounts, idx, applied, lastStep, ppidWritten, gcVars, prefixVars>>

\* evaluateMounts called only after the system mounts were applied
S1EvaluateMountsAfterSystemMounts ==
    /\ pc = "evaluate"
    /\ \E r \in evaluateMounts(pod) :
          /\ plan' = r
          /\ applied' = [i \in 1..Len(SystemMounts) |-> i]
          /\ IF r.err # "none"
             THEN /\ Exit(1, "evaluateMounts")
                  /\ effectiveMounts' = SystemMounts
                  /\ UNCHANGED idx
             ELSE /\ effectiveMounts' = SystemMounts \o r.mounts
                  /\ idx' = Len(SystemMounts) + 1
                  /\ pc' = IF r.mounts = << >> THEN "ppid" ELSE "mounting"
                  /\ UNCHANGED <<exitCode, exitAt>>
    /\ UNCHANGED <<pod, prevPlan, cloexec, lastStep, ppidWritten, gcVars, prefixVars>>

\* effectiveMounts built with the volume operations ahead of the system mounts
S1EvaluateMountsVolumesFirst ==
    /\ pc = "evaluate"
    /\ \E r \in evaluateMounts(pod) :
          /\ plan' = r
          /\ IF r.err # "none"
             THEN /\ Exit(1, "evaluateMounts")
                  /\ UNCHANGED <<effectiveMounts, idx>>
             ELSE /\ effectiveMounts' = r.mounts \o SystemMounts
                  /\ idx' = 1
                  /\ pc' = "mounting"
                  /\ UNCHANGED <<exitCode, exitAt>>
    /\ UNCHANGED <<pod, prevPlan, cloexec, applied, lastStep, ppidWritten, gcVars, prefixVars>>

\* the call of evaluateMounts and the construction of effectiveMounts
S1EvaluateMounts ==
    /\ pc = "evaluate"
    /\ \E r \in evaluateMounts(pod) :
          /\ plan' = r
          /\ IF r.err # "none"
             THEN /\ Exit(1, "evaluateMounts")
                  /\ UNCHANGED <<effectiveMounts, idx>>
             ELSE /\ effectiveMounts' = SystemMounts \o r.mounts
                  /\ idx' = 1
                  /\ pc' = "mounting"
                  /\ UNCHANGED <<exitCode, exitAt>>
    /\ UNCHANGED <<pod, prevPlan, cloexec, applied, lastStep, ppidWritten, gcVars, prefixVars>>

HostInspected(m) == m.HostPath # EmptyStr /\ HasPrefix(m.HostPath, <<"/">>)

absTargetPath(m) == Join(m.TargetPrefixPath, m.RelTargetPath)

Step(h, t, c, o) == [host |-> h, target |-> t, created |-> c, outcome |-> o]

\* every missing target created with Mkdir
CreatedAlwaysDir(h) == "dir"

\* what the iteration creates for a missing target: Mkdir when the host path was
\* not inspected or is a directory, OpenFile with O_CREATE otherwise
Created(h) == IF h \in {"nil", "dir"} THEN "dir" ELSE "file"

\* an existing target mounted over whatever its type
TypeMismatchIgnored(h, t) == FALSE

\* the two fatal cases for an existing target and an inspected host path
TypeMismatch(h, t) ==
    \/ h = "dir" /\ t # "dir"
    \/ h = "file" /\ t = "dir"

\* what one iteration of the executor loop can see and do for operation m:
\* host is os.Stat of the host path ("nil" when it is not inspected), target os.Stat
\* of the absolute target ("skipped" for "/"), created what the iteration created,
\* outcome "mounted" or the call that was fatal
IterationRuns(m) ==
    LET hosts == IF HostInspected(m) THEN {"dir", "file"} ELSE {"nil"}
        mountCall == {"mounted", "mount"}
        afterHost(h) ==
            IF absTargetPath(m) = <<"/">>
            THEN {Step(h, "skipped", "none", o) : o \in mountCall}
            ELSE {Step(h, "err", "none", "targetStat")}
                 \cup {Step(h, "absent", "none", "mkdirAll")}
                 \cup {Step(h, "absent", "none",
                             IF Created(h) = "dir" THEN "mkdir" ELSE "create")}
                 \cup {Step(h, "absent", Created(h), o) : o \in mountCall}
                 \cup UNION {
                        IF h # "nil" /\ TypeMismatch(h, t)
                        THEN {Step(h, t, "none", "mismatch")}
                        ELSE {Step(h, t, "none", o) : o \in mountCall}
                      : t \in {"dir", "file"}}
    IN (IF HostInspected(m) THEN {Step("err", "nil", "none", "hostStat")} ELSE {})
       \cup UNION {afterHost(h) : h \in hosts}

\* a loop that reports the failure of an operation and goes on with the next one
S1ApplyMountContinuing ==
    /\ pc = "mounting"
    /\ \E s \in IterationRuns(effectiveMounts[idx]) :
          /\ lastStep' = [idx |-> idx, host |-> s.host, target |-> s.target,
                          created |-> s.created, outcome |-> s.outcome]
          /\ applied' = IF s.outcome = "mounted" THEN Append(applied, idx) ELSE applied
          /\ idx' = idx + 1
          /\ pc' = IF idx = Len(effectiveMounts) THEN "ppid" ELSE "mounting"
          /\ UNCHANGED <<exitCode, exitAt>>
    /\ UNCHANGED <<podVars, cloexec, effectiveMounts, ppidWritten, gcVars, prefixVars>>

\* one iteration of the loop over effectiveMounts
S1ApplyMount ==
    /\ pc = "mounting"
    /\ \E s \in IterationRuns(effectiveMounts[idx]) :
          /\ lastStep' = [idx |-> idx, host |-> s.host, target |-> s.target,
                          created |-> s.created, outcome |-> s.outcome]
          /\ IF s.outcome = "mounted"
             THEN /\ applied' = Append(applied, idx)
                  /\ idx' = idx + 1
                  /\ pc' = IF idx = Len(effectiveMounts) THEN "ppid" ELSE "mounting"
                  /\ UNCHANGED <<exitCode, exitAt>>
             ELSE /\ Exit(1, s.outcome)
                  /\ UNCHANGED <<applied, idx>>
    /\ UNCHANGED <<podVars, cloexec, effectiveMounts, ppidWritten, gcVars, prefixVars>>

\* writePpid whose failure is reported with the general exit code
S1WritePpidExitOne ==
    /\ pc = "ppid"
    /\ \/ pc' = "chroot" /\ ppidWritten' = TRUE /\ UNCHANGED <<exitCode, exitAt>>
       \/ Exit(1, "writePpid") /\ UNCHANGED ppidWritten
    /\ UNCHANGED <<podVars, cloexec, effectiveMounts, idx, applied, lastStep, gcVars, prefixVars>>

\* writePpid
S1WritePpid ==
    /\ pc = "ppid"
    /\ \/ pc' = "chroot" /\ ppidWritten' = TRUE /\ UNCHANGED <<exitCode, exitAt>>
       \/ Exit(ExitWritePpid, "writePpid") /\ UNCHANGED ppidWritten
    /\ UNCHANGED <<podVars, cloexec, effectiveMounts, idx, applied, lastStep, gcVars, prefixVars>>

\* syscall.Chroot and os.Chdir
S1Chroot ==
    /\ pc = "chroot"
    /\ \/ pc' = "exec" /\ UNCHANGED <<exitCode, exitAt>>
       \/ Exit(1, "chroot")
       \/ Exit(1, "chdir")
    /\ UNCHANGED <<podVars, cloexec, effectiveMounts, idx, applied, lastStep, ppidWritten, gcVars, prefixVars>>

\* syscall.Exec called directly, without withClearedCloExec
S1ExecWithoutClearing ==
    /\ pc = "exec"
    /\ \/ pc' = "execed" /\ UNCHANGED <<exitCode, exitAt>>
       \/ Exit(ExitExec, "exec")
    /\ UNCHANGED <<podVars, cloexec, effectiveMounts, idx, applied, lastStep, ppidWritten, gcVars, prefixVars>>

\* withClearedCloExec around syscall.Exec: a successful exec replaces the process
\* image while the flag is cleared; a failed one returns through the deferred
\* CloseOnExec(lfd, true), whose own failure is ignored
S1Exec ==
    /\ pc = "exec"
    /\ \/ Exit(ExitExec, "clearCloExec") /\ UNCHANGED cloexec
       \/ pc' = "execed" /\ cloexec' = "clear" /\ UNCHANGED <<exitCode, exitAt>>
       \/ Exit(ExitExec, "exec") /\ cloexec' \in {"set", "clear"}
    /\ UNCHANGED <<podVars, effectiveMounts, idx, applied, lastStep, ppidWritten, gcVars, prefixVars>>

Stage1Init ==
    /\ PodInit(Stage1MaxDecls)
    /\ plan = NoPlan
    /\ prevPlan = NoPlan
    /\ Stage1Idle
    /\ lines = << >>
    /\ GCIdle
    /\ PrefixIdle

Stage1Next ==
    \/ S1ParseUUID
    \/ S1LoadPod
    \/ S1LockFD
    \/ S1EvaluateMounts
    \/ S1ApplyMount
    \/ S1WritePpid
    \/ S1Chroot
    \/ S1Exec

SpecStage1 == Stage1Init /\ [][Stage1Next]_vars

-----------------------------------------------------------------------------
(* Properties of stage1 (checked under SpecStage1) *)

\* C6: whenever evaluateMounts fails in stage1 (duplicate mount, conflict, missing
\* mount, missing volume), the process ends there: no iteration of the executor loop
\* has run, so no mount syscall was issued and no operation is applied.
C6_FailBeforeAnyMount ==
    (Failed(plan) \/ exitAt = "evaluateMounts")
        => /\ pc = "exited"
           /\ exitAt = "evaluateMounts"
           /\ applied = << >>
           /\ lastStep = NoStep
           /\ effectiveMounts = << >>

C6_Witness ==
    /\ exitAt = "evaluateMounts"
    /\ plan.err = "missing_mount"
    /\ applied = << >>

\* the four fatal classes, by the step that reports them, and the code of each
FatalClassOf ==
    [uuid |-> "malformed identifier", loadPod |-> "pod-load failure",
     writePpid |-> "PID-file write failure", clearCloExec |-> "exec failure",
     exec |-> "exec failure"]

FatalClassCode ==
    [c \in {"malformed identifier", "pod-load failure", "PID-file write failure",
             "exec failure"} |->
        CASE c = "malformed identifier" -> ExitMalformedUUID
          [] c = "pod-load failure" -> ExitLoadPod
          [] c = "PID-file write failure" -> ExitWritePpid
          [] c = "exec failure" -> ExitExec]

\* C11 as stated: each of the four fatal classes exits with a non-zero code that is
\* the code of no other class.
C11_DistinctExitCodes ==
    (pc = "exited" /\ exitAt \in DOMAIN FatalClassOf)
        => /\ exitCode # 0
           /\ \A c \in DOMAIN FatalClassCode :
                  c # FatalClassOf[exitAt] => exitCode # FatalClassCode[c]

\* C11 amended: no failure exits with 0; a malformed identifier and a pod-load failure
\* both exit with 1 (the code of every other fatal error as well), a PID-file write
\* failure with 4 and an exec failure with 7; a successful exec replaces the process,
\* which then returns no code of its own.
C11_ExitCodes ==
    /\ pc = "exited"
          => exitCode = (CASE exitAt = "writePpid" -> 4
                           [] exitAt \in {"exec", "clearCloExec"} -> 7
                           [] OTHER -> 1)
    /\ pc # "exited" => exitCode = -1
    /\ exitCode # 0

C11_Witness ==
    /\ pc = "exited"
    /\ exitAt = "writePpid"
    /\ exitCode = 4
    /\ Len(applied) > Len(SystemMounts)

\* C12 as stated: the lock descriptor is close-on-exec from the moment it is set, and
\* in particular when the final workload is exec'd.
C12_CloExecAtExec ==
    pc \in {"evaluate", "mounting", "ppid", "chroot", "exec", "execed"} => cloexec = "set"

\* C12 amended: the lock descriptor is set close-on-exec before the plan is built and
\* before any mount, and stays so until the final exec; withClearedCloExec clears the
\* flag around that exec, so the descriptor is inheritable at the moment the workload
\* is exec'd (no other exec happens); only a failed exec, or a failed clearing, leaves
\* the process running, with the flag set again unless the deferred call failed.
C12_CloExecClearedOnlyForExec ==
    /\ pc \in {"evaluate", "mounting", "ppid", "chroot", "exec"} => cloexec = "set"
    /\ pc = "execed" => cloexec = "clear"
    /\ (pc = "exited" /\ cloexec = "clear") => exitAt = "exec"
    /\ (pc = "exited" /\ cloexec = "unknown") => exitAt \in {"uuid", "loadPod", "apps", "getLockFD", "setCloExec"}
    /\ (applied # << >> \/ plan.err # "unset") => cloexec # "unknown"

C12_Witness ==
    /\ pc = "execed"
    /\ cloexec = "clear"
    /\ ppidWritten


\* the targets of the system mounts, in the order stage1 lists them
SystemTargets == <<DevPath, ProcPath, SysPath>>

FailedOutcomes == {"hostStat", "targetStat", "mkdirAll", "mkdir", "create", "mismatch", "mount"}

\* C16: effectiveMounts starts with the system mounts (/dev, /proc and /sys each marked
\* shared and then bound under the root, then tmpfs on /tmp) and continues with the
\* plan of evaluateMounts, and the operations are applied in that order: an operation
\* of a volume is applied only after all seven system mounts.
C16_SystemMountsFirst ==
    effectiveMounts # << >> =>
        /\ Len(effectiveMounts) = 7 + Len(plan.mounts)
        /\ \A i \in 1..3 :
              /\ effectiveMounts[2 * i - 1] =
                    flyMount(EmptyStr, EmptyStr, SystemTargets[i], "none", {MS_REC, MS_SHARED})
              /\ effectiveMounts[2 * i] =
                    flyMount(SystemTargets[i], rfs, SystemTargets[i], "none", {MS_BIND, MS_REC})
        /\ effectiveMounts[7] = flyMount(TmpfsName, rfs, TmpPath, "tmpfs", {})
        /\ \A i \in 1..Len(plan.mounts) : effectiveMounts[7 + i] = plan.mounts[i]
        /\ \A k \in 1..Len(applied) : applied[k] = k
        /\ lastStep.idx > 7 => Len(applied) >= 7

C16_Witness ==
    /\ Len(plan.mounts) >= 2
    /\ Len(applied) = 8
    /\ lastStep.idx = 9
    /\ IsMarkShared(effectiveMounts[8])
    /\ effectiveMounts[8].RelTargetPath = HostSource

\* C17: the operations are applied in list order, and when the iteration for the
\* operation at index i is fatal, the operations below i stay applied, no operation
\* from i on is applied, the PID file is not written, and stage1 takes no further
\* step: no later mount, no chroot, no exec.
C17_AbortOnFailure ==
    /\ \A k \in 1..Len(applied) : applied[k] = k
    /\ (ppidWritten \/ pc \in {"ppid", "chroot", "exec", "execed"})
          => applied = [k \in 1..Len(effectiveMounts) |-> k]
    /\ (pc = "exited" /\ exitAt \in FailedOutcomes)
          => /\ lastStep.outcome = exitAt
             /\ lastStep.idx = idx
             /\ applied = [k \in 1..(idx - 1) |-> k]
             /\ ~ppidWritten
             /\ ~ENABLED Stage1Next

C17_Witness ==
    /\ pc = "exited"
    /\ exitAt = "mount"
    /\ idx = 9
    /\ Len(applied) = 8
    /\ Len(effectiveMounts) > 9

\* C18: when the iteration found the target and inspected the host path, and exactly
\* one of the two is a directory, it ends with the type-mismatch error: stage1 exits
\* and the mount syscall of that operation is not issued.
C18_TypeMismatchIsFatal ==
    (/\ lastStep.host \in {"dir", "file"}
     /\ lastStep.target \in {"dir", "file"}
     /\ (lastStep.host = "dir") # (lastStep.target = "dir"))
        => /\ lastStep.outcome = "mismatch"
           /\ lastStep.created = "none"
           /\ pc = "exited"
           /\ exitAt = "mismatch"
           /\ \A k \in 1..Len(applied) : applied[k] # lastStep.idx

C18_Witness ==
    /\ lastStep.outcome = "mismatch"
    /\ lastStep.host = "file"
    /\ lastStep.target = "dir"
    /\ IsBind(effectiveMounts[lastStep.idx])
    /\ lastStep.idx > 7

\* C19: when the iteration reaches the mount syscall for a target that did not
\* exist, it has created the target: a directory when the host path was not
\* inspected or is a directory, a file when the host path is a non-directory; a
\* target that exists, and "/", are never created.
C19_TargetCreation ==
    /\ (lastStep.target = "absent" /\ lastStep.outcome \in {"mounted", "mount"})
          => lastStep.created = (IF lastStep.host = "file" THEN "file" ELSE "dir")
    /\ lastStep.target \in {"dir", "file", "skipped"} => lastStep.created = "none"
    /\ lastStep.created # "none"
          => lastStep.target = "absent" /\ lastStep.outcome \in {"mounted", "mount"}

C19_Witness ==
    /\ lastStep.target = "absent"
    /\ lastStep.host = "file"
    /\ lastStep.created = "file"
    /\ lastStep.outcome = "mounted"
    /\ lastStep.idx > 7

-----------------------------------------------------------------------------
(* gc: the pod mount reaper *)

\* the pod's UUID as flag.Arg(0) gives it, shortened
podID == <<"u", "u">>

\* Go's < on strings: bytewise lexicographic
StrLess(s, t) ==
    \E i \in 1..(Len(t)) :
        /\ \A k \in 1..(i - 1) : k <= Len(s) /\ s[k] = t[k]
        /\ \/ i = Len(s) + 1
           \/ i <= Len(s) /\ ByteOf[s[i]] < ByteOf[t[i]]

\* a pattern that lost the id: every line matches
MatchAnyLine(line) == TRUE

\* regexp ".*<podID>.*" matched against a line: the id occurs somewhere in it
MatchString(line) ==
    \E i \in 0..(Len(line) - Len(podID)) :
        \A k \in 1..Len(podID) : line[i + k] = podID[k]

\* strings.Split(line, " ")
RECURSIVE SplitFrom(_, _, _)
SplitFrom(line, i, cur) ==
    IF i > Len(line) THEN <<cur>>
    ELSE IF line[i] = " " THEN <<cur>> \o SplitFrom(line, i + 1, EmptyStr)
    ELSE SplitFrom(line, i + 1, Append(cur, line[i]))

Split(line) == SplitFrom(line, 1, EmptyStr)

\* the scan loop without mountMap: the fifth field of every matching line
RECURSIVE ScanLinesKeepingDuplicates(_, _, _)
ScanLinesKeepingDuplicates(ls, i, list) ==
    IF i > Len(ls) THEN list
    ELSE IF MatchString(ls[i])
         THEN ScanLinesKeepingDuplicates(ls, i + 1, Append(list, Split(ls[i])[5]))
    ELSE ScanLinesKeepingDuplicates(ls, i + 1, list)

\* the scan loop: the fifth field of every matching line, first occurrence only
RECURSIVE ScanLines(_, _, _)
ScanLines(ls, i, list) ==
    IF i > Len(ls) THEN list
    ELSE IF MatchString(ls[i])
         THEN LET mount == Split(ls[i])[5]
              IN IF \E k \in 1..Len(list) : list[k] = mount
                 THEN ScanLines(ls, i + 1, list)
                 ELSE ScanLines(ls, i + 1, Append(list, mount))
    ELSE ScanLines(ls, i + 1, list)

\* Less of sort.StringSlice, or of its sort.Reverse wrapper when reverse is TRUE
Less(reverse, x, y) == IF reverse THEN StrLess(y, x) ELSE StrLess(x, y)

\* insertion of x into a list sorted by Less
RECURSIVE Insert(_, _, _)
Insert(x, sorted, reverse) ==
    IF sorted = << >> THEN <<x>>
    ELSE IF Less(reverse, x, Head(sorted)) THEN <<x>> \o sorted
    ELSE <<Head(sorted)>> \o Insert(x, Tail(sorted), reverse)

\* sort.Sort on a slice of distinct strings
RECURSIVE Sort(_, _)
Sort(list, reverse) ==
    IF list = << >> THEN << >>
    ELSE Insert(Head(list), Sort(Tail(list), reverse), reverse)

\* the mount points left in the order the scan met them
SortStringsForgotten(list) == list

\* sort.Sort(sort.StringSlice(mountList))
SortStrings(list) == Sort(list, FALSE)

\* the second sort without sort.Reverse
SortReverseForgotten(list) == Sort(list, FALSE)

\* sort.Sort(sort.Reverse(sort.StringSlice(mountList)))
SortReverseStrings(list) == Sort(list, TRUE)

\* a line of mountinfo with the given root, mount point and mount source fields
MountinfoLine(root, mountPoint, source) ==
    <<"x", " ", "x", " ", "x", " ">> \o root \o <<" ">> \o mountPoint
    \o <<" ", "x", " ", "-", " ", "x", " ">> \o source \o <<" ", "x">>

TableLines ==
    { MountinfoLine(<<"/">>, <<"/", "u", "u">>, <<"x">>),
      MountinfoLine(<<"/">>, <<"/", "u", "u", "/", "a">>, <<"x">>),
      MountinfoLine(<<"/", "a">>, <<"/", "u", "u", "/", "a">>, <<"x">>),
      MountinfoLine(<<"/">>, <<"/", "u", "u", "/", "a", "/", "b">>, <<"x">>),
      MountinfoLine(<<"/">>, <<"/", "u", "u", "-", "a">>, <<"x">>),
      MountinfoLine(<<"/">>, <<"/", "x">>, <<"x">>),
      MountinfoLine(<<"/">>, <<"/", "u", "/", "a">>, <<"x">>),
      MountinfoLine(<<"/", "u", "u">>, <<"/", "x", "/", "a">>, <<"x">>),
      MountinfoLine(<<"/">>, <<"/", "x", "/", "b">>, <<"/", "u", "u", "/", "b">>),
      MountinfoLine(<<"/">>, <<"/", "x", "/", "b">>, <<"x">>) }

\* flag parsing, NewUUID, readLines, the scan and the first sort
GCScan ==
    /\ gcpc = "start"
    /\ \/ gcpc' = "failedUUID" /\ gcExit' = 1 /\ UNCHANGED mountList
       \/ gcpc' = "failedReadLines" /\ gcExit' = 1 /\ UNCHANGED mountList
       \/ LET list == ScanLines(lines, 1, << >>)
          IN IF Len(list) = 0
             THEN gcpc' = "done" /\ gcExit' = 0 /\ UNCHANGED mountList
             ELSE gcpc' = "remount" /\ mountList' = SortStrings(list) /\ UNCHANGED gcExit
    /\ UNCHANGED <<podVars, stage1Vars, prefixVars, lines, remounted, unmounted>>

\* one iteration of the remount loop
GCRemount ==
    /\ gcpc = "remount"
    /\ Len(remounted) < Len(mountList)
    /\ \/ remounted' = Append(remounted, mountList[Len(remounted) + 1])
          /\ UNCHANGED <<gcpc, gcExit>>
       \/ gcpc' = "failedRemount" /\ gcExit' = 1 /\ UNCHANGED remounted
    /\ UNCHANGED <<podVars, stage1Vars, prefixVars, lines, mountList, unmounted>>

\* the second sort, once the remount loop is over
GCReverse ==
    /\ gcpc = "remount"
    /\ Len(remounted) = Len(mountList)
    /\ mountList' = SortReverseStrings(mountList)
    /\ gcpc' = "unmount"
    /\ UNCHANGED <<podVars, stage1Vars, prefixVars, lines, remounted, unmounted, gcExit>>

\* one iteration of the unmount loop
GCUnmount ==
    /\ gcpc = "unmount"
    /\ Len(unmounted) < Len(mountList)
    /\ \/ unmounted' = Append(unmounted, mountList[Len(unmounted) + 1])
          /\ UNCHANGED <<gcpc, gcExit>>
       \/ gcpc' = "failedUnmount" /\ gcExit' = 1 /\ UNCHANGED unmounted
    /\ UNCHANGED <<podVars, stage1Vars, prefixVars, lines, mountList, remounted>>

\* main returns
GCReturn ==
    /\ gcpc = "unmount"
    /\ Len(unmounted) = Len(mountList)
    /\ gcpc' = "done"
    /\ gcExit' = 0
    /\ UNCHANGED <<podVars, stage1Vars, prefixVars, lines, mountList, remounted, unmounted>>

GCInit ==
    /\ pod = [Mounts |-> << >>, Volumes |-> << >>, MountPoints |-> << >>]
    /\ plan = NoPlan
    /\ prevPlan = NoPlan
    /\ Stage1Idle
    /\ \E n \in 0..MaxLines : lines \in [1..n -> TableLines]
    /\ GCIdle
    /\ PrefixIdle

GCNext ==
    \/ GCScan
    \/ GCRemount
    \/ GCReverse
    \/ GCUnmount
    \/ GCReturn

SpecGC == GCInit /\ [][GCNext]_vars

-----------------------------------------------------------------------------
(* Properties of the reaper (checked under SpecGC) *)

\* the pod identifier occurs in the text of the line
ContainsPodID(line) ==
    \E i \in 1..Len(line) :
        i + Len(podID) - 1 <= Len(line) /\ SubSeq(line, i, i + Len(podID) - 1) = podID

\* the mount points the scan selected: mountList holds them from the scan on
Selected == Range(mountList)

\* C1: the unmounts done so far are the first elements of the selected mount points
\* taken in descending bytewise order (each smaller than the one before it, and no
\* selected mount point greater than an unmounted one is still to come); so when P is
\* a proper path prefix of a selected C, P is not unmounted unless C was unmounted
\* before it.
C1_UnmountChildrenFirst ==
    /\ Range(unmounted) \subseteq Selected
    /\ \A i, j \in 1..Len(unmounted) : i < j => StrLess(unmounted[j], unmounted[i])
    /\ \A i \in 1..Len(unmounted) :
           \A c \in Selected :
               StrLess(unmounted[i], c) => \E j \in 1..(i - 1) : unmounted[j] = c
    /\ \A i \in 1..Len(unmounted) :
           \A c \in Selected :
               IsPathAncestor(unmounted[i], c) => \E j \in 1..(i - 1) : unmounted[j] = c
    /\ (gcpc = "done" /\ mountList # << >>) => Range(unmounted) = Selected

C1_Witness ==
    /\ gcpc = "done"
    /\ unmounted = << <<"/", "u", "u", "/", "a", "/", "b">>,
                      <<"/", "u", "u", "/", "a">>,
                      <<"/", "u", "u">> >>

\* C7: once the reaper has read a mount table none of whose lines contains the pod
\* identifier, it has succeeded (exit code 0) and has done no remount and no unmount.
C7_UnrelatedTableNoOperations ==
    ((\A i \in 1..Len(lines) : ~ContainsPodID(lines[i]))
     /\ gcpc \notin {"start", "failedUUID", "failedReadLines"})
        => /\ gcpc = "done"
           /\ gcExit = 0
           /\ remounted = << >>
           /\ unmounted = << >>
           /\ mountList = << >>

C7_Witness ==
    /\ gcpc = "done"
    /\ Len(lines) = MaxLines
    /\ \A i \in 1..Len(lines) : ~ContainsPodID(lines[i])
    /\ remounted = << >>
    /\ unmounted = << >>

\* C20: the remounts done so far are the first elements of the selected mount points
\* taken in ascending bytewise order, so a selected mount point is remounted before
\* every selected mount point nested under it; an unmount happens only once every
\* selected mount point was remounted, and a failed remount ends the reaper with no
\* unmount at all.
C20_RemountBeforeUnmount ==
    /\ Range(remounted) \subseteq Selected
    /\ \A i, j \in 1..Len(remounted) : i < j => StrLess(remounted[i], remounted[j])
    /\ \A i \in 1..Len(remounted) :
           \A c \in Selected :
               StrLess(c, remounted[i]) => \E j \in 1..(i - 1) : remounted[j] = c
    /\ \A i \in 1..Len(remounted) :
           \A p \in Selected :
               IsPathAncestor(p, remounted[i]) => \E j \in 1..(i - 1) : remounted[j] = p
    /\ (unmounted # << >> \/ gcpc \in {"unmount", "failedUnmount"})
           => Range(remounted) = Selected
    /\ gcpc = "failedRemount"
           => /\ unmounted = << >>
              /\ gcExit = 1
              /\ ~ENABLED GCNext

C20_Witness ==
    /\ gcpc = "failedRemount"
    /\ lines[1] = MountinfoLine(<<"/">>, <<"/", "u", "u", "/", "a", "/", "b">>, <<"x">>)
    /\ remounted = << <<"/", "u", "u">>, <<"/", "u", "u", "/", "a">> >>
    /\ Cardinality(Selected) = 3

\* the fifth space-separated field of a line
MountPointField(line) ==
    LET spaces == {i \in 1..Len(line) : line[i] = " "}
        nth(n) == CHOOSE i \in spaces : Cardinality({j \in spaces : j < i}) = n - 1
    IN SubSeq(line, nth(4) + 1, nth(5) - 1)

\* the mount points of the lines that contain the pod identifier, and of the others
MatchingMountPoints ==
    {MountPointField(lines[i]) : i \in {j \in 1..Len(lines) : ContainsPodID(lines[j])}}

OtherMountPoints ==
    {MountPointField(lines[i]) : i \in {j \in 1..Len(lines) : ~ContainsPodID(lines[j])}}

\* number of elements of list equal to x
Count(list, x) == Cardinality({i \in 1..Len(list) : list[i] = x})

ScanDone == gcpc \notin {"start", "failedUUID", "failedReadLines"}

GCEnded == gcpc \in {"done", "failedRemount", "failedUnmount"}

\* C21 as stated: the reaper processes exactly the distinct mount points of the
\* lines that contain the pod identifier; when it ends each of them was remounted
\* exactly once and unmounted at most once, and no mount point of a line without
\* the identifier was remounted or unmounted.
C21_SelectionAsStated ==
    /\ ScanDone => Selected = MatchingMountPoints
    /\ GCEnded =>
          /\ \A m \in MatchingMountPoints :
                Count(remounted, m) = 1 /\ Count(unmounted, m) <= 1
          /\ \A m \in OtherMountPoints :
                Count(remounted, m) = 0 /\ Count(unmounted, m) = 0

\* C21 amended: the reaper processes exactly the distinct mount points of the lines
\* that contain the pod identifier; each of them is remounted at most once and
\* unmounted at most once however many lines carry it, exactly once remounted as
\* soon as the remount loop is over, and a mount point carried by no such line is
\* never remounted or unmounted.
C21_Selection ==
    /\ ScanDone =>
          /\ Selected = MatchingMountPoints
          /\ \A m \in Selected : Count(mountList, m) = 1
    /\ \A m \in MatchingMountPoints :
          /\ Count(remounted, m) <= 1
          /\ Count(unmounted, m) <= 1
          /\ (gcpc \in {"unmount", "failedUnmount", "done"} /\ mountList # << >>)
                => Count(remounted, m) = 1
          /\ (gcpc = "done" /\ mountList # << >>) => Count(unmounted, m) = 1
    /\ Range(remounted) \cup Range(unmounted) \subseteq MatchingMountPoints
    /\ \A m \in OtherMountPoints \ MatchingMountPoints :
          Count(remounted, m) = 0 /\ Count(unmounted, m) = 0

C21_Witness ==
    /\ gcpc = "done"
    /\ Len(lines) = 3
    /\ lines[1] = MountinfoLine(<<"/">>, <<"/", "u", "u", "/", "a">>, <<"x">>)
    /\ lines[2] = MountinfoLine(<<"/", "a">>, <<"/", "u", "u", "/", "a">>, <<"x">>)
    /\ lines[3] = MountinfoLine(<<"/">>, <<"/", "x">>, <<"x">>)
    /\ remounted = << <<"/", "u", "u", "/", "a">> >>
    /\ unmounted = << <<"/", "u", "u", "/", "a">> >>


-----------------------------------------------------------------------------
(* stage0: getMountsForPrefix, the prefix filter of the mount table *)

\* a path from its elements
RECURSIVE Path(_)
Path(elems) ==
    IF elems = << >> THEN EmptyStr ELSE <<"/">> \o Head(elems) \o Path(Tail(elems))

\* the directories of the mount table of TestMountOrdering
PodRootfs == Path(<< <<"m", "y">>, <<"m", "o", "u", "n", "t">>, <<"p", "r", "e", "f", "i", "x">>, <<"r", "o", "o", "t", "f", "s">> >>)
Stage2Rootfs == Path(<< <<"o", "p", "t">>, <<"s", "t", "a", "g", "e", "2">>, <<"b", "u", "s", "y", "b", "o", "x">>, <<"r", "o", "o", "t", "f", "s">> >>)
SysDir == Path(<< <<"s", "y", "s">> >>)
CgroupDir == Path(<< <<"s", "y", "s">>, <<"f", "s">>, <<"c", "g", "r", "o", "u", "p">> >>)
SystemdDir == Path(<< <<"s", "y", "s">>, <<"f", "s">>, <<"c", "g", "r", "o", "u", "p">>, <<"s", "y", "s", "t", "e", "m", "d">> >>)
AppRootfs == PodRootfs \o Stage2Rootfs
NestedRoot == AppRootfs \o Path(<< <<"r", "o", "o", "t", "f", "s">> >>)
NestedPodRootfs == NestedRoot \o PodRootfs
NestedAppRootfs == NestedPodRootfs \o Stage2Rootfs

\* a mount of the table: the first, second and fifth field of its line
MountEntry(id, parentId, mountPoint) ==
    [id |-> id, parentId |-> parentId, mountPoint |-> mountPoint]

\* the mount table of TestMountOrdering, line by line
TestMountinfo ==
    <<MountEntry(71, 21, Path(<< <<"v", "a", "r">>, <<"l", "i", "b">>, <<"r", "k", "t">> >>)),
      MountEntry(116, 71, PodRootfs),
      MountEntry(121, 116, AppRootfs),
      MountEntry(146, 145, AppRootfs \o SystemdDir),
      MountEntry(145, 144, AppRootfs \o CgroupDir),
      MountEntry(144, 121, AppRootfs \o SysDir),
      MountEntry(180, 121, NestedRoot),
      MountEntry(184, 183, NestedRoot \o SystemdDir),
      MountEntry(183, 182, NestedRoot \o CgroupDir),
      MountEntry(182, 180, NestedRoot \o SysDir),
      MountEntry(209, 206, NestedPodRootfs),
      MountEntry(219, 218, NestedAppRootfs \o SystemdDir),
      MountEntry(218, 217, NestedAppRootfs \o CgroupDir),
      MountEntry(217, 210, NestedAppRootfs \o SysDir),
      MountEntry(210, 209, NestedAppRootfs)>>

TestPrefix == Path(<< <<"m", "y">>, <<"m", "o", "u", "n", "t">>, <<"p", "r", "e", "f", "i", "x">> >>)

\* the mount IDs the test expects, in order
TestIds == <<219, 218, 217, 210, 209, 184, 183, 182, 146, 145, 180, 144, 121, 116>>

\* the selection: mountPoint is the prefix or a path below it
UnderPrefix(path, mountPoint) == mountPoint = path \/ IsPathAncestor(path, mountPoint)

\* the order turned round: the smaller parent ID first
MountLessAscending(a, b) ==
    \/ a.parentId < b.parentId
    \/ a.parentId = b.parentId /\ a.id < b.id

\* the order of the result: a mount comes ahead of the mounts with a smaller parent
\* ID (a mount nested in another one was made after it, so its parent ID is greater
\* than the parent ID of the mount it is nested in); mounts of one parent come in
\* descending mount ID
MountLess(a, b) ==
    \/ a.parentId > b.parentId
    \/ a.parentId = b.parentId /\ a.id > b.id

RECURSIVE SortMounts(_)
SortMounts(S) ==
    IF S = {} THEN << >>
    ELSE LET first == CHOOSE e \in S : \A o \in S \ {e} : MountLess(e, o)
         IN <<first>> \o SortMounts(S \ {first})

\* getMountsForPrefix(path, mi): the mounts of the table under the prefix, sorted
getMountsForPrefix(path, mi) ==
    [err |-> "none",
     mounts |-> SortMounts({mi[i] : i \in {j \in 1..Len(mi) : UnderPrefix(path, mi[j].mountPoint)}})]

\* mount points and prefixes of the small mount tables
MountPoints ==
    { <<"/", "p">>, <<"/", "p", "/", "a">>, <<"/", "p", "/", "a", "/", "b">>,
      <<"/", "p", "/", "b">>, <<"/", "p", "a">>, <<"/", "q">>, <<"/", "q", "/", "p">> }

Prefixes == { <<"/", "p">>, <<"/", "p", "/", "a">>, <<"/", "q">> }

\* position in `mounted` of the innermost mount above the i-th one, 0 if there is none
Nearest(mounted, i) ==
    LET above == {j \in 1..Len(mounted) : IsPathAncestor(mounted[j], mounted[i])}
    IN IF above = {} THEN 0
       ELSE CHOOSE j \in above : \A k \in above : Len(mounted[k]) <= Len(mounted[j])

\* a mount table the kernel shows after the mounts of `mounted` were made in that
\* order, each after the mounts it is nested in: mount IDs grow with the order, the
\* parent of a mount is the innermost mount above it (the host root, ID 1, when none
\* is in the table), and the table lists the mounts in the order `scan`
MountTable(mounted, scan) ==
    [k \in 1..Len(mounted) |->
        MountEntry(scan[k] + 1, Nearest(mounted, scan[k]) + 1, mounted[scan[k]])]

PrefixInit ==
    /\ pod = [Mounts |-> << >>, Volumes |-> << >>, MountPoints |-> << >>]
    /\ plan = NoPlan
    /\ prevPlan = NoPlan
    /\ Stage1Idle
    /\ lines = << >>
    /\ GCIdle
    /\ \/ mountinfo = TestMountinfo
       \/ \E S \in SUBSET MountPoints :
             /\ Cardinality(S) <= MaxMounts
             /\ \E mounted \in MapOrders(S) :
                   /\ \A i, j \in 1..Len(mounted) :
                         IsPathAncestor(mounted[i], mounted[j]) => i < j
                   /\ \E scan \in MapOrders(1..Len(mounted)) :
                         mountinfo = MountTable(mounted, scan)
    /\ mntPrefix \in Prefixes \cup {TestPrefix}
    /\ mnts = NoMounts

\* the call of getMountsForPrefix
GetMountsForPrefixCall ==
    /\ mnts.err = "unset"
    /\ mnts' = getMountsForPrefix(mntPrefix, mountinfo)
    /\ UNCHANGED <<podVars, stage1Vars, gcVars, mountinfo, mntPrefix>>

PrefixNext == GetMountsForPrefixCall

SpecPrefix == PrefixInit /\ [][PrefixNext]_vars

-----------------------------------------------------------------------------
(* Properties of getMountsForPrefix (checked under SpecPrefix) *)

=============================================================================
